---- MODULE Spec2Model ----
(***************************************************************************)
(* Model of the two stateful commands of ttc-bot's general command group   *)
(* (src/src/commands/general.rs):                                          *)
(*   harold    the aggregation job guarded by Data.harold_message          *)
(*   votemute  the vote registry Data.votemute_users                       *)
(* Spec      is the state machine of concurrent harold invocations.        *)
(* VoteSpec  is the state machine of concurrent votemute invocations.      *)
(***************************************************************************)
EXTENDS Integers, Sequences, FiniteSets, TLC

\* ------------------------------------------------------------------ bounds
MaxStarts == 3          \* harold invocations started in one behaviour
NumChannels == 2        \* channels of the guild
NumUsers == 5           \* user ids
MaxVotes == 4           \* votemute invocations in one behaviour
MaxThreshold == 3       \* largest configured votemute_required_users
MaxWindows == 1         \* the clock runs for this many voting windows ...
MaxSeconds == 1         \* ... and this many seconds into each
MaxFeedLen == 3         \* longest message history of a scanned channel

\* the command tasks that run harold concurrently; each may run harold again
\* after it returned, up to MaxStarts invocations in all
Invocations == {1, 2}
Channels == 1..NumChannels
Users == 1..NumUsers
\* the command tasks that run votemute concurrently
Voters == {1, 2}
\* the guild of the votemute runs: who holds config.regular_role, who holds
\* config.moderator_role, which accounts are bots, and the members that
\* votemute is invoked on (one that can be muted, a moderator, a bot)
Regulars == {1, 2, 3, 4}
Moderators == {4}
Bots == {5}
Targets == {1, 4, 5}

\* ------------------------------------------------------ program constants
TopN == 10                  \* (0..10) leaderboard rows
Marker == ":helpmeplz:"     \* content marker of a harold message

None == 0                   \* Option::None of harold_message; messages are ids >= 1
NoLock == 0                 \* channel_progress mutex is free
TIMEOUT_DURATION == 30      \* minutes a votemuted member is timed out
WindowSeconds == 300        \* Duration::minutes(5).num_seconds()
NeverMuted == -1            \* communication_disabled_until is None

VARIABLES
    \* ---- harold
    feed,                   \* channel -> sequence of Result<Message> of messages_iter
    channels,               \* guild.channels in the iteration order of the map
    harold_message,         \* Data.harold_message : Option<Message>
    nextMsg,                \* id of the next message the service creates
    starts,                 \* number of harold invocations started so far
    pc,                     \* invocation -> position in harold
    leaderboard,            \* invocation -> the leaderboard flag argument
    progress_message,       \* invocation -> its progress message (None before it is sent)
    seenRef,                \* invocation -> message linked by its "already being calculated" reply
    handles,                \* invocation -> channels in spawn order (join order)
    joined,                 \* invocation -> number of handles awaited successfully
    wpc,                    \* invocation -> channel -> position of the spawned task
    channel_progress,       \* invocation -> counter behind Arc<Mutex<_>>
    cpLock,                 \* invocation -> channel whose task holds the channel_progress guard
    rendered,               \* invocation -> (completed, total) shown by its progress message
    global_messages,        \* invocation -> (total, harold) accumulator
    global_user_hash_map,   \* invocation -> user -> (total, harold) accumulator
    outcome,                \* invocation -> how the last finished invocation ended
    reported                \* invocation -> the final report was sent

haroldVars == <<feed, channels, harold_message, nextMsg, starts, pc, leaderboard, progress_message,
                seenRef, handles, joined, wpc, channel_progress, cpLock, rendered,
                global_messages, global_user_hash_map, outcome, reported>>

VARIABLES
    \* ---- votemute
    votemute_users,         \* Data.votemute_users : target -> (expiry, voters)
    required_users,         \* config.votemute_required_users
    now,                    \* Utc::now().timestamp()
    muted_until,            \* member -> communication_disabled_until
    vpc,                    \* task -> position in votemute
    vargs,                  \* task -> (calling_user, target_user) of its invocation
    votes,                  \* number of votemute invocations so far
    penalties,              \* member -> calls of disable_communication_until_datetime
    lastVote                \* the last invocation that replied: its inputs and its reply

voteVars == <<votemute_users, required_users, now, muted_until, vpc, vargs, votes,
              penalties, lastVote>>

VARIABLES
    \* ---- one channel task, item by item
    messages,               \* what messages_iter has still to yield
    scanned,                \* the items it has yielded so far
    task                    \* the task's locals (global_messages, user_hash_map)

scanVars == <<messages, scanned, task>>

VARIABLES
    \* ---- the ranking part of harold, step by step
    rpc,                            \* where the ranking is: idle, sort, lookup, done
    user_message_vec,               \* the dump of global_user_hash_map
    harold_message_leaderboard,     \* sorted by harold message count
    message_leaderboard,            \* sorted by message count
    harold_percentage_leaderboard,  \* sorted by harold percentage
    lookup                          \* what the user lookup found

rankVars == <<rpc, user_message_vec, harold_message_leaderboard, message_leaderboard,
              harold_percentage_leaderboard, lookup>>

vars == <<haroldVars, voteVars, scanVars, rankVars>>

\* ------------------------------------------------------------ message feed
OkMsg(u, h) == [ok |-> TRUE, author |-> u,
                content |-> IF h THEN <<"plz", Marker>> ELSE <<"plz">>]
ErrItem == [ok |-> FALSE, author |-> 0, content |-> <<>>]

\* ContainsMarker that looks at the start of the content only
ContainsMarkerAtStart(content) == Len(content) > 0 /\ content[1] = Marker

\* message.content.contains(":helpmeplz:")
ContainsMarker(content) == \E k \in 1..Len(content) : content[k] = Marker

EmptyMap == [u \in {} |-> <<0, 0>>]

\* ScanStep that counts a failed item as a message of nobody
ScanStepCountsErr(acc, item) ==
    IF item.ok
    THEN LET u == item.author
             m0 == IF u \in DOMAIN acc.user_hash_map
                   THEN acc.user_hash_map
                   ELSE [v \in DOMAIN acc.user_hash_map \cup {u} |->
                            IF v = u THEN <<0, 0>> ELSE acc.user_hash_map[v]]
             h == IF ContainsMarker(item.content) THEN 1 ELSE 0
         IN [global_messages |-> <<acc.global_messages[1] + 1, acc.global_messages[2] + h>>,
             user_hash_map |-> [m0 EXCEPT ![u] = <<m0[u][1] + 1, m0[u][2] + h>>]]
    ELSE [acc EXCEPT !.global_messages[1] = @ + 1]

\* ScanStep with the marker test as an if-else: a marked message is counted
\* as marked only
ScanStepMarkedOnly(acc, item) ==
    IF item.ok
    THEN LET u == item.author
             m0 == IF u \in DOMAIN acc.user_hash_map
                   THEN acc.user_hash_map
                   ELSE [v \in DOMAIN acc.user_hash_map \cup {u} |->
                            IF v = u THEN <<0, 0>> ELSE acc.user_hash_map[v]]
             h == IF ContainsMarker(item.content) THEN 1 ELSE 0
         IN [global_messages |-> <<acc.global_messages[1] + 1 - h, acc.global_messages[2] + h>>,
             user_hash_map |-> [m0 EXCEPT ![u] = <<m0[u][1] + 1 - h, m0[u][2] + h>>]]
    ELSE acc

\* ScanStep with the counting in the branch of a known author only: the
\* first message of an author creates the (0, 0) entry and is not counted
ScanStepInsertUncounted(acc, item) ==
    IF item.ok
    THEN LET u == item.author
             h == IF ContainsMarker(item.content) THEN 1 ELSE 0
         IN IF u \in DOMAIN acc.user_hash_map
            THEN [global_messages |-> <<acc.global_messages[1] + 1, acc.global_messages[2] + h>>,
                  user_hash_map |-> [acc.user_hash_map EXCEPT ![u] = <<@[1] + 1, @[2] + h>>]]
            ELSE [global_messages |-> acc.global_messages,
                  user_hash_map |-> [v \in DOMAIN acc.user_hash_map \cup {u} |->
                                        IF v = u THEN <<0, 0>> ELSE acc.user_hash_map[v]]]
    ELSE acc

\* one iteration of the while-let loop of a channel task on accumulator acc
ScanStep(acc, item) ==
    IF item.ok
    THEN LET u == item.author
             m0 == IF u \in DOMAIN acc.user_hash_map
                   THEN acc.user_hash_map
                   ELSE [v \in DOMAIN acc.user_hash_map \cup {u} |->
                            IF v = u THEN <<0, 0>> ELSE acc.user_hash_map[v]]
             h == IF ContainsMarker(item.content) THEN 1 ELSE 0
         IN [global_messages |-> <<acc.global_messages[1] + 1, acc.global_messages[2] + h>>,
             user_hash_map |-> [m0 EXCEPT ![u] = <<m0[u][1] + 1, m0[u][2] + h>>]]
    ELSE acc

RECURSIVE ScanFrom(_, _)
ScanFrom(acc, items) ==
    IF items = <<>> THEN acc
    ELSE ScanFrom(ScanStep(acc, Head(items)), Tail(items))

\* the value a channel task returns: (user_hash_map, global_messages)
Scan(items) == ScanFrom([global_messages |-> <<0, 0>>, user_hash_map |-> EmptyMap], items)

\* MergeMap that stores a joined user's counts over the ones it already has
MergeMapOverwrite(g, m) ==
    [u \in DOMAIN g \cup DOMAIN m |-> IF u \in DOMAIN m THEN m[u] ELSE g[u]]

\* body of the join loop for one joined value: add it to the accumulators
MergeMap(g, m) ==
    [u \in DOMAIN g \cup DOMAIN m |->
        IF u \in DOMAIN m
        THEN LET base == IF u \in DOMAIN g THEN g[u] ELSE <<0, 0>>
             IN <<base[1] + m[u][1], base[2] + m[u][2]>>
        ELSE g[u]]

\* MergePair that adds the message count to both components
MergePairTotalOnly(g, p) == <<g[1] + p[1], g[2] + p[1]>>

MergePair(g, p) == <<g[1] + p[1], g[2] + p[2]>>

\* the join loop over a sequence of joined values, from accumulator acc
RECURSIVE MergeAll(_, _)
MergeAll(acc, values) ==
    IF values = <<>> THEN acc
    ELSE MergeAll([global_messages |-> MergePair(acc.global_messages, Head(values).global_messages),
                   user_hash_map |-> MergeMap(acc.user_hash_map, Head(values).user_hash_map)],
                  Tail(values))

\* ------------------------------------------------------------------ harold
\* the message histories Init draws from: a failed item, messages with and
\* without the marker, an author in one channel or in both
Feeds == { <<OkMsg(1, TRUE), ErrItem, OkMsg(2, FALSE)>>, <<OkMsg(1, FALSE)>>, <<>> }
FeedChoices == { f \in [Channels -> Feeds] : f[1] = <<OkMsg(1, TRUE), ErrItem, OkMsg(2, FALSE)>>
                                             /\ \A c \in Channels : c > 1 => f[c] # f[1] }

\* guild.channels is a HashMap: the spawn loop visits the channels in its
\* iteration order, which is any order
ChannelOrders == { s \in [1..NumChannels -> Channels] : \A a, b \in 1..NumChannels : s[a] = s[b] => a = b }

NoArgs == [voter |-> 0, target |-> 0]
NoVote == [voter |-> 0, target |-> 0, reply |-> "none", count |-> 0]
NoSessions == [t \in {} |-> [expiry |-> 0, voters |-> <<>>]]

\* the vote registry before any votemute, threshold as configured
VoteIdle(threshold) ==
    /\ votemute_users = NoSessions
    /\ required_users = threshold
    /\ now = 0
    /\ muted_until = [u \in Users |-> NeverMuted]
    /\ vpc = [p \in Voters |-> "idle"]
    /\ vargs = [p \in Voters |-> NoArgs]
    /\ votes = 0
    /\ penalties = [u \in Users |-> 0]
    /\ lastVote = NoVote

\* what the lookup holds when no user was asked for
NoLookup == [user |-> 0, messages |-> <<0, 0>>, harold_percentage |-> <<0, 1>>,
             leaderboard_positions |-> <<0, 0, 0>>]

\* the ranking part is not being followed
RankIdle ==
    /\ rpc = "idle"
    /\ user_message_vec = <<>>
    /\ harold_message_leaderboard = <<>>
    /\ message_leaderboard = <<>>
    /\ harold_percentage_leaderboard = <<>>
    /\ lookup = NoLookup

\* no channel task is being followed
ScanIdle ==
    /\ messages = <<>>
    /\ scanned = <<>>
    /\ task = [global_messages |-> <<0, 0>>, user_hash_map |-> EmptyMap]

\* no harold invocation has run: Data as constructed
HaroldIdle ==
    /\ harold_message = None
    /\ nextMsg = 1
    /\ starts = 0
    /\ pc = [i \in Invocations |-> "idle"]
    /\ leaderboard = [i \in Invocations |-> FALSE]
    /\ progress_message = [i \in Invocations |-> None]
    /\ seenRef = [i \in Invocations |-> None]
    /\ handles = [i \in Invocations |-> <<>>]
    /\ joined = [i \in Invocations |-> 0]
    /\ wpc = [i \in Invocations |-> [c \in Channels |-> "none"]]
    /\ channel_progress = [i \in Invocations |-> 0]
    /\ cpLock = [i \in Invocations |-> NoLock]
    /\ rendered = [i \in Invocations |-> <<0, 0>>]
    /\ global_messages = [i \in Invocations |-> <<0, 0>>]
    /\ global_user_hash_map = [i \in Invocations |-> EmptyMap]
    /\ outcome = [i \in Invocations |-> "none"]
    /\ reported = [i \in Invocations |-> FALSE]

Init ==
    /\ VoteIdle(MaxThreshold)
    /\ feed \in FeedChoices
    /\ channels \in ChannelOrders
    /\ HaroldIdle
    /\ ScanIdle
    /\ RankIdle

\* harold is invoked; its first block reads harold_message under the read lock.
\* A command task that starts again stands for a new invocation: the state of
\* the previous one (its detached channel tasks included) is dropped.
HaroldCheck(i) ==
    /\ pc[i] \in {"idle", "done"}
    /\ starts < MaxStarts
    /\ starts' = starts + 1
    /\ progress_message' = [progress_message EXCEPT ![i] = None]
    /\ handles' = [handles EXCEPT ![i] = <<>>]
    /\ joined' = [joined EXCEPT ![i] = 0]
    /\ wpc' = [wpc EXCEPT ![i] = [c \in Channels |-> "none"]]
    /\ channel_progress' = [channel_progress EXCEPT ![i] = 0]
    /\ cpLock' = [cpLock EXCEPT ![i] = NoLock]
    /\ rendered' = [rendered EXCEPT ![i] = <<0, 0>>]
    /\ global_messages' = [global_messages EXCEPT ![i] = <<0, 0>>]
    /\ global_user_hash_map' = [global_user_hash_map EXCEPT ![i] = EmptyMap]
    /\ reported' = [reported EXCEPT ![i] = FALSE]
    /\ IF harold_message # None
       THEN \* Some(message): reply with message.link() and return
            /\ seenRef' = [seenRef EXCEPT ![i] = harold_message]
            /\ leaderboard' = [leaderboard EXCEPT ![i] = FALSE]
            /\ outcome' = [outcome EXCEPT ![i] = "already"]
            /\ pc' = [pc EXCEPT ![i] = "done"]
       ELSE \* None: fall through to the announcement
            /\ seenRef' = [seenRef EXCEPT ![i] = None]
            /\ \E lb \in BOOLEAN : leaderboard' = [leaderboard EXCEPT ![i] = lb]
            /\ outcome' = [outcome EXCEPT ![i] = "none"]
            /\ pc' = [pc EXCEPT ![i] = "announce"]
    /\ UNCHANGED <<rankVars, scanVars, voteVars, feed, channels, harold_message, nextMsg>>

\* ctx.send("Started harold counting process.") and the send of the progress
\* message; either send may fail and `?` returns the error
HaroldAnnounce(i) ==
    /\ pc[i] = "announce"
    /\ \E sent \in BOOLEAN :
         IF sent
         THEN /\ progress_message' = [progress_message EXCEPT ![i] = nextMsg]
              /\ nextMsg' = nextMsg + 1
              /\ pc' = [pc EXCEPT ![i] = "set_lock"]
              /\ UNCHANGED outcome
         ELSE /\ outcome' = [outcome EXCEPT ![i] = "send_failed"]
              /\ pc' = [pc EXCEPT ![i] = "done"]
              /\ UNCHANGED <<progress_message, nextMsg>>
    /\ UNCHANGED <<rankVars, scanVars, voteVars, feed, channels, harold_message, starts, leaderboard, seenRef, handles, joined, wpc,
                   channel_progress, cpLock, rendered, global_messages,
                   global_user_hash_map, reported>>

\* "Set the lock": *harold_message = Some(progress_message) under the write lock
HaroldSetLock(i) ==
    /\ pc[i] = "set_lock"
    /\ harold_message' = progress_message[i]
    /\ pc' = [pc EXCEPT ![i] = "spawn"]
    /\ UNCHANGED <<rankVars, scanVars, voteVars, feed, channels, nextMsg, starts, leaderboard, progress_message, seenRef, handles,
                   joined, wpc, channel_progress, cpLock, rendered, global_messages,
                   global_user_hash_map, outcome, reported>>

\* the for loop over guild.channels: tokio::spawn one task per channel
HaroldSpawn(i) ==
    /\ pc[i] = "spawn"
    /\ handles' = [handles EXCEPT ![i] = channels]
    /\ wpc' = [wpc EXCEPT ![i] = [c \in Channels |-> "scan"]]
    /\ pc' = [pc EXCEPT ![i] = "join"]
    /\ UNCHANGED <<rankVars, scanVars, voteVars, feed, channels, harold_message, nextMsg, starts, leaderboard, progress_message,
                   seenRef, joined, channel_progress, cpLock, rendered, global_messages,
                   global_user_hash_map, outcome, reported>>

\* WorkerCount with try_lock: a task that finds the counter locked goes on
\* without counting itself
WorkerCountTryLock(i, c) ==
    /\ wpc[i][c] = "scan"
    /\ cpLock' = [cpLock EXCEPT ![i] = IF @ = NoLock THEN c ELSE @]
    /\ channel_progress' = [channel_progress EXCEPT ![i] = IF cpLock[i] = NoLock THEN @ + 1 ELSE @]
    /\ wpc' = [wpc EXCEPT ![i][c] = "render"]
    /\ UNCHANGED <<rankVars, scanVars, voteVars, feed, channels, harold_message, nextMsg, starts, pc, leaderboard, progress_message,
                   seenRef, handles, joined, rendered, global_messages,
                   global_user_hash_map, outcome, reported>>

\* WorkerCount that drops the channel_progress guard right after the += 1, so
\* the edit of the progress message is made without it
WorkerCountNoGuard(i, c) ==
    /\ wpc[i][c] = "scan"
    /\ cpLock[i] = NoLock
    /\ channel_progress' = [channel_progress EXCEPT ![i] = @ + 1]
    /\ wpc' = [wpc EXCEPT ![i][c] = "render"]
    /\ UNCHANGED <<rankVars, scanVars, voteVars, feed, channels, harold_message, nextMsg, starts, pc, leaderboard, progress_message,
                   seenRef, handles, joined, cpLock, rendered, global_messages,
                   global_user_hash_map, outcome, reported>>

\* a channel task ends its scan, takes the channel_progress guard and adds 1
WorkerCount(i, c) ==
    /\ wpc[i][c] = "scan"
    /\ cpLock[i] = NoLock
    /\ cpLock' = [cpLock EXCEPT ![i] = c]
    /\ channel_progress' = [channel_progress EXCEPT ![i] = @ + 1]
    /\ wpc' = [wpc EXCEPT ![i][c] = "render"]
    /\ UNCHANGED <<rankVars, scanVars, voteVars, feed, channels, harold_message, nextMsg, starts, pc, leaderboard, progress_message,
                   seenRef, handles, joined, rendered, global_messages,
                   global_user_hash_map, outcome, reported>>

\* WorkerRender that takes the task's count back when the edit fails
WorkerRenderRollback(i, c) ==
    /\ wpc[i][c] = "render"
    /\ \E edited \in BOOLEAN :
         /\ rendered' = [rendered EXCEPT ![i] = IF edited THEN <<channel_progress[i], Len(handles[i])>> ELSE @]
         /\ channel_progress' = [channel_progress EXCEPT ![i] = IF edited THEN @ ELSE @ - 1]
    /\ cpLock' = [cpLock EXCEPT ![i] = NoLock]
    /\ wpc' = [wpc EXCEPT ![i][c] = "done"]
    /\ UNCHANGED <<rankVars, scanVars, voteVars, feed, channels, harold_message, nextMsg, starts, pc, leaderboard, progress_message,
                   seenRef, handles, joined, global_messages,
                   global_user_hash_map, outcome, reported>>

\* WorkerRender of a task that adds its counts to the job's accumulators
\* itself before it returns
WorkerRenderMerges(i, c) ==
    /\ wpc[i][c] = "render"
    /\ \E edited \in BOOLEAN :
         rendered' = [rendered EXCEPT ![i] = IF edited THEN <<channel_progress[i], Len(handles[i])>> ELSE @]
    /\ cpLock' = [cpLock EXCEPT ![i] = NoLock]
    /\ wpc' = [wpc EXCEPT ![i][c] = "done"]
    /\ global_messages' = [global_messages EXCEPT
                              ![i] = MergePair(@, Scan(feed[c]).global_messages)]
    /\ UNCHANGED <<rankVars, scanVars, voteVars, feed, channels, harold_message, nextMsg, starts, pc, leaderboard, progress_message,
                   seenRef, handles, joined, channel_progress,
                   global_user_hash_map, outcome, reported>>

\* progress_message.lock().await.edit(..): Ok or logged Err; the task then
\* returns (channel_id, user_hash_map, global_messages) and drops the guard
WorkerRender(i, c) ==
    /\ wpc[i][c] = "render"
    /\ \E edited \in BOOLEAN :
         rendered' = [rendered EXCEPT ![i] = IF edited THEN <<channel_progress[i], Len(handles[i])>> ELSE @]
    /\ cpLock' = [cpLock EXCEPT ![i] = NoLock]
    /\ wpc' = [wpc EXCEPT ![i][c] = "done"]
    /\ UNCHANGED <<rankVars, scanVars, voteVars, feed, channels, harold_message, nextMsg, starts, pc, leaderboard, progress_message,
                   seenRef, handles, joined, channel_progress, global_messages,
                   global_user_hash_map, outcome, reported>>

\* a channel task panics or is cancelled: its JoinHandle will yield Err(JoinError);
\* unwinding drops the channel_progress guard if the task holds it
WorkerAbort(i, c) ==
    /\ wpc[i][c] \in {"scan", "render"}
    /\ wpc' = [wpc EXCEPT ![i][c] = "aborted"]
    /\ cpLock' = [cpLock EXCEPT ![i] = IF @ = c THEN NoLock ELSE @]
    /\ UNCHANGED <<rankVars, scanVars, voteVars, feed, channels, harold_message, nextMsg, starts, pc, leaderboard, progress_message,
                   seenRef, handles, joined, channel_progress, rendered, global_messages,
                   global_user_hash_map, outcome, reported>>

\* HaroldJoin that takes a task's value without waiting for the task to return
HaroldJoinNoWait(i) ==
    /\ pc[i] = "join"
    /\ LET c == handles[i][joined[i] + 1] IN
         /\ IF wpc[i][c] # "aborted"
            THEN LET value == Scan(feed[c]) IN
                 /\ global_messages' = [global_messages EXCEPT
                                           ![i] = MergePair(@, value.global_messages)]
                 /\ global_user_hash_map' = [global_user_hash_map EXCEPT
                                           ![i] = MergeMap(@, value.user_hash_map)]
                 /\ joined' = [joined EXCEPT ![i] = @ + 1]
                 /\ pc' = [pc EXCEPT ![i] = IF joined[i] + 1 = Len(handles[i])
                                            THEN "report" ELSE "join"]
                 /\ UNCHANGED outcome
            ELSE \* Err(JoinError): `?` returns from harold
                 /\ outcome' = [outcome EXCEPT ![i] = "join_failed"]
                 /\ pc' = [pc EXCEPT ![i] = "done"]
                 /\ UNCHANGED <<global_messages, global_user_hash_map, joined>>
    /\ UNCHANGED <<rankVars, scanVars, voteVars, feed, channels, harold_message, nextMsg, starts, leaderboard, progress_message,
                   seenRef, handles, wpc, channel_progress, cpLock, rendered, reported>>

\* one iteration of `for handle in handles { let value = handle.await?; .. }`
HaroldJoin(i) ==
    /\ pc[i] = "join"
    /\ LET c == handles[i][joined[i] + 1] IN
         /\ wpc[i][c] \in {"done", "aborted"}
         /\ IF wpc[i][c] = "done"
            THEN LET value == Scan(feed[c]) IN
                 /\ global_messages' = [global_messages EXCEPT
                                           ![i] = MergePair(@, value.global_messages)]
                 /\ global_user_hash_map' = [global_user_hash_map EXCEPT
                                           ![i] = MergeMap(@, value.user_hash_map)]
                 /\ joined' = [joined EXCEPT ![i] = @ + 1]
                 /\ pc' = [pc EXCEPT ![i] = IF joined[i] + 1 = Len(handles[i])
                                            THEN "report" ELSE "join"]
                 /\ UNCHANGED outcome
            ELSE \* Err(JoinError): `?` returns from harold
                 /\ outcome' = [outcome EXCEPT ![i] = "join_failed"]
                 /\ pc' = [pc EXCEPT ![i] = "done"]
                 /\ UNCHANGED <<global_messages, global_user_hash_map, joined>>
    /\ UNCHANGED <<rankVars, scanVars, voteVars, feed, channels, harold_message, nextMsg, starts, leaderboard, progress_message,
                   seenRef, handles, wpc, channel_progress, cpLock, rendered, reported>>

\* leaderboard[i as usize] for i in 0..10 indexes out of bounds with fewer rows
LeaderboardPanics(lb, user_map) == lb /\ Cardinality(DOMAIN user_map) < TopN

\* build the embeds and send the final report
HaroldReport(i) ==
    /\ pc[i] = "report"
    /\ IF LeaderboardPanics(leaderboard[i], global_user_hash_map[i])
       THEN /\ outcome' = [outcome EXCEPT ![i] = "panicked"]
            /\ pc' = [pc EXCEPT ![i] = "done"]
            /\ UNCHANGED reported
       ELSE \E sent \in BOOLEAN :
            IF sent
            THEN /\ reported' = [reported EXCEPT ![i] = TRUE]
                 /\ pc' = [pc EXCEPT ![i] = "release"]
                 /\ UNCHANGED outcome
            ELSE /\ outcome' = [outcome EXCEPT ![i] = "report_failed"]
                 /\ pc' = [pc EXCEPT ![i] = "done"]
                 /\ UNCHANGED reported
    /\ UNCHANGED <<rankVars, scanVars, voteVars, feed, channels, harold_message, nextMsg, starts, leaderboard, progress_message,
                   seenRef, handles, joined, wpc, channel_progress, cpLock, rendered,
                   global_messages, global_user_hash_map>>

\* "Reset it after it is done": *harold_message = None under the write lock
HaroldRelease(i) ==
    /\ pc[i] = "release"
    /\ harold_message' = None
    /\ outcome' = [outcome EXCEPT ![i] = "ok"]
    /\ pc' = [pc EXCEPT ![i] = "done"]
    /\ UNCHANGED <<rankVars, scanVars, voteVars, feed, channels, nextMsg, starts, leaderboard, progress_message, seenRef, handles,
                   joined, wpc, channel_progress, cpLock, rendered, global_messages,
                   global_user_hash_map, reported>>

Next ==
    \/ \E i \in Invocations : HaroldCheck(i)
    \/ \E i \in Invocations : HaroldAnnounce(i)
    \/ \E i \in Invocations : HaroldSetLock(i)
    \/ \E i \in Invocations : HaroldSpawn(i)
    \/ \E i \in Invocations, c \in Channels : WorkerCount(i, c)
    \/ \E i \in Invocations, c \in Channels : WorkerRender(i, c)
    \/ \E i \in Invocations, c \in Channels : WorkerAbort(i, c)
    \/ \E i \in Invocations : HaroldJoin(i)
    \/ \E i \in Invocations : HaroldReport(i)
    \/ \E i \in Invocations : HaroldRelease(i)

Spec == Init /\ [][Next]_vars

\* ---------------------------------------------------------------- votemute
\* what the command replies (the description of the embed it sends)
ReplyNotRegular == "You need the Regular role to votemute"
ReplySelf == "You should not try to votemute yourself"
ReplyModerator == "You should not try to votemute a moderator"
ReplyBot == "You should not try to votemute a bot"
ReplyMuted == "There is no need for a votemute"
ReplyDuplicate == "You already voted to mute"
ReplyResolved == "This should calm down the chat"
ReplyProgress == "users voted to mute"
ReplyErr == "Err"

\* communication_disabled_until.is_some() and its timestamp > Timestamp::now()
IsMuted(until, t) == until # NeverMuted /\ until > t

\* Eligibility without the "Is the target a bot" block
EligibilityBotUnchecked(voter, target, muted) ==
    IF voter \notin Regulars THEN ReplyNotRegular
    ELSE IF voter = target THEN ReplySelf
    ELSE IF target \in Moderators THEN ReplyModerator
    ELSE IF muted THEN ReplyMuted
    ELSE "ok"

\* the checks before "Actual logic", in the order of the code: the reply of the
\* first one that returns, "ok" when the invocation reaches the registry
Eligibility(voter, target, muted) ==
    IF voter \notin Regulars THEN ReplyNotRegular
    ELSE IF voter = target THEN ReplySelf
    ELSE IF target \in Moderators THEN ReplyModerator
    ELSE IF target \in Bots THEN ReplyBot
    ELSE IF muted THEN ReplyMuted
    ELSE "ok"

Range(seq) == { seq[k] : k \in 1..Len(seq) }

\* the registry with the entry of target removed
RemoveKey(users, target) == [t \in DOMAIN users \ {target} |-> users[t]]

\* PutKey that only replaces: a target without an entry gets none
PutKeyExistingOnly(users, target, entry) ==
    [t \in DOMAIN users |-> IF t = target THEN entry ELSE users[t]]

\* the registry with the entry of target inserted or replaced
PutKey(users, target, entry) ==
    [t \in DOMAIN users \cup {target} |-> IF t = target THEN entry ELSE users[t]]

\* AfterReset with <= in place of <: the window already closes at its expiry
AfterResetAtExpiry(entry, t) ==
    IF entry.expiry <= t THEN [expiry |-> t + WindowSeconds, voters |-> <<>>] ELSE entry

\* "Reset count, if the first votemute is over 5 minutes ago"
AfterReset(entry, t) ==
    IF entry.expiry < t THEN [expiry |-> t + WindowSeconds, voters |-> <<>>] ELSE entry

\* AlreadyVoted that looks at the most recent voter only
AlreadyVotedLast(voters, voter) == Len(voters) > 0 /\ voters[Len(voters)] = voter

\* vec.contains(&calling_user)
AlreadyVoted(voters, voter) == voter \in Range(voters)

\* "Are there enough votes?"
EnoughVotes(voters, required) == Len(voters) = required

VoteInit ==
    /\ \E threshold \in 1..MaxThreshold : VoteIdle(threshold)
    /\ feed \in {f \in FeedChoices : \A c \in Channels : c > 1 => f[c] = <<>>}
    /\ channels = [k \in 1..NumChannels |-> k]
    /\ HaroldIdle
    /\ ScanIdle
    /\ RankIdle

\* votemute is invoked by voter on target and runs its checks up to the
\* registry lock; a check that fails replies and returns
VoteValidate(p) ==
    /\ vpc[p] = "idle"
    /\ votes < MaxVotes
    /\ votes' = votes + 1
    /\ \/ \* a has_role(..).await? returns the error: nothing was touched
          /\ lastVote' = [NoVote EXCEPT !.reply = ReplyErr]
          /\ UNCHANGED <<vpc, vargs>>
       \/ \E voter \in Users, target \in Targets :
            LET muted == IsMuted(muted_until[target], now)
                reply == Eligibility(voter, target, muted)
            IN IF reply = "ok"
               THEN /\ vpc' = [vpc EXCEPT ![p] = "lock"]
                    /\ vargs' = [vargs EXCEPT ![p] = [voter |-> voter, target |-> target]]
                    /\ UNCHANGED lastVote
               ELSE /\ lastVote' = [voter |-> voter, target |-> target, reply |-> reply,
                                    count |-> 0]
                    /\ UNCHANGED <<vpc, vargs>>
    /\ UNCHANGED <<votemute_users, required_users, now, muted_until, penalties, haroldVars, scanVars, rankVars>>

\* VoteLocked that stores the caller as the only voter of an existing session,
\* as a task working on a stale copy of the registry would
VoteLockedStale(p) ==
    /\ vpc[p] = "lock"
    /\ vpc' = [vpc EXCEPT ![p] = "idle"]
    /\ vargs' = [vargs EXCEPT ![p] = NoArgs]
    /\ LET voter == vargs[p].voter
           target == vargs[p].target
           said(reply, count) ==
               [voter |-> voter, target |-> target, reply |-> reply, count |-> count]
       IN IF target \in DOMAIN votemute_users
          THEN LET entry == AfterReset(votemute_users[target], now) IN
               IF ~AlreadyVoted(entry.voters, voter)
               THEN LET voted == [entry EXCEPT !.voters = <<voter>>] IN
                    IF EnoughVotes(voted.voters, required_users)
                    THEN \* users.remove, then disable_communication_until_datetime(..).await?
                         /\ votemute_users' = RemoveKey(votemute_users, target)
                         /\ penalties' = [penalties EXCEPT ![target] = @ + 1]
                         /\ \E applied \in BOOLEAN :
                              IF applied
                              THEN /\ muted_until' = [muted_until EXCEPT
                                                        ![target] = now + TIMEOUT_DURATION * 60]
                                   /\ lastVote' = said(ReplyResolved, Len(voted.voters))
                              ELSE /\ UNCHANGED muted_until
                                   /\ lastVote' = said(ReplyErr, Len(voted.voters))
                    ELSE /\ votemute_users' = PutKey(votemute_users, target, voted)
                         /\ lastVote' = said(ReplyProgress, Len(voted.voters))
                         /\ UNCHANGED <<muted_until, penalties>>
               ELSE \* "You already voted to mute"
                    /\ votemute_users' = PutKey(votemute_users, target, entry)
                    /\ lastVote' = said(ReplyDuplicate, Len(entry.voters))
                    /\ UNCHANGED <<muted_until, penalties>>
          ELSE \* "Create list of voted people for the target and add the caller"
               /\ votemute_users' = PutKey(votemute_users, target,
                                           [expiry |-> now + WindowSeconds, voters |-> <<voter>>])
               /\ lastVote' = said(ReplyProgress, 1)
               /\ UNCHANGED <<muted_until, penalties>>
    /\ UNCHANGED <<required_users, now, votes, haroldVars, scanVars, rankVars>>

\* VoteLocked that calls the moderation action before users.remove: when the
\* call fails the session is still in the registry, with the caller pushed
VoteLockedCallFirst(p) ==
    /\ vpc[p] = "lock"
    /\ vpc' = [vpc EXCEPT ![p] = "idle"]
    /\ vargs' = [vargs EXCEPT ![p] = NoArgs]
    /\ LET voter == vargs[p].voter
           target == vargs[p].target
           said(reply, count) ==
               [voter |-> voter, target |-> target, reply |-> reply, count |-> count]
       IN IF target \in DOMAIN votemute_users
          THEN LET entry == AfterReset(votemute_users[target], now) IN
               IF ~AlreadyVoted(entry.voters, voter)
               THEN LET voted == [entry EXCEPT !.voters = Append(@, voter)] IN
                    IF EnoughVotes(voted.voters, required_users)
                    THEN \* users.remove, then disable_communication_until_datetime(..).await?
                         /\ penalties' = [penalties EXCEPT ![target] = @ + 1]
                         /\ \E applied \in BOOLEAN :
                              IF applied
                              THEN /\ votemute_users' = RemoveKey(votemute_users, target)
                                   /\ muted_until' = [muted_until EXCEPT
                                                        ![target] = now + TIMEOUT_DURATION * 60]
                                   /\ lastVote' = said(ReplyResolved, Len(voted.voters))
                              ELSE /\ votemute_users' = PutKey(votemute_users, target, voted)
                                   /\ UNCHANGED muted_until
                                   /\ lastVote' = said(ReplyErr, Len(voted.voters))
                    ELSE /\ votemute_users' = PutKey(votemute_users, target, voted)
                         /\ lastVote' = said(ReplyProgress, Len(voted.voters))
                         /\ UNCHANGED <<muted_until, penalties>>
               ELSE \* "You already voted to mute"
                    /\ votemute_users' = PutKey(votemute_users, target, entry)
                    /\ lastVote' = said(ReplyDuplicate, Len(entry.voters))
                    /\ UNCHANGED <<muted_until, penalties>>
          ELSE \* "Create list of voted people for the target and add the caller"
               /\ votemute_users' = PutKey(votemute_users, target,
                                           [expiry |-> now + WindowSeconds, voters |-> <<voter>>])
               /\ lastVote' = said(ReplyProgress, 1)
               /\ UNCHANGED <<muted_until, penalties>>
    /\ UNCHANGED <<required_users, now, votes, haroldVars, scanVars, rankVars>>

\* "Actual logic": everything from votemute_users.lock() to the return, done
\* while the guard is held
VoteLocked(p) ==
    /\ vpc[p] = "lock"
    /\ vpc' = [vpc EXCEPT ![p] = "idle"]
    /\ vargs' = [vargs EXCEPT ![p] = NoArgs]
    /\ LET voter == vargs[p].voter
           target == vargs[p].target
           said(reply, count) ==
               [voter |-> voter, target |-> target, reply |-> reply, count |-> count]
       IN IF target \in DOMAIN votemute_users
          THEN LET entry == AfterReset(votemute_users[target], now) IN
               IF ~AlreadyVoted(entry.voters, voter)
               THEN LET voted == [entry EXCEPT !.voters = Append(@, voter)] IN
                    IF EnoughVotes(voted.voters, required_users)
                    THEN \* users.remove, then disable_communication_until_datetime(..).await?
                         /\ votemute_users' = RemoveKey(votemute_users, target)
                         /\ penalties' = [penalties EXCEPT ![target] = @ + 1]
                         /\ \E applied \in BOOLEAN :
                              IF applied
                              THEN /\ muted_until' = [muted_until EXCEPT
                                                        ![target] = now + TIMEOUT_DURATION * 60]
                                   /\ lastVote' = said(ReplyResolved, Len(voted.voters))
                              ELSE /\ UNCHANGED muted_until
                                   /\ lastVote' = said(ReplyErr, Len(voted.voters))
                    ELSE /\ votemute_users' = PutKey(votemute_users, target, voted)
                         /\ lastVote' = said(ReplyProgress, Len(voted.voters))
                         /\ UNCHANGED <<muted_until, penalties>>
               ELSE \* "You already voted to mute"
                    /\ votemute_users' = PutKey(votemute_users, target, entry)
                    /\ lastVote' = said(ReplyDuplicate, Len(entry.voters))
                    /\ UNCHANGED <<muted_until, penalties>>
          ELSE \* "Create list of voted people for the target and add the caller"
               /\ votemute_users' = PutKey(votemute_users, target,
                                           [expiry |-> now + WindowSeconds, voters |-> <<voter>>])
               /\ lastVote' = said(ReplyProgress, 1)
               /\ UNCHANGED <<muted_until, penalties>>
    /\ UNCHANGED <<required_users, now, votes, haroldVars, scanVars, rankVars>>

\* Tick with a timer that evicts the sessions whose window has closed
TickEvicts ==
    /\ \E d \in {1, WindowSeconds} :
         /\ (now + d) % WindowSeconds <= MaxSeconds
         /\ (now + d) \div WindowSeconds <= MaxWindows
         /\ now' = now + d
    /\ votemute_users' = [t \in {u \in DOMAIN votemute_users : ~(votemute_users[u].expiry < now')}
                             |-> votemute_users[t]]
    /\ UNCHANGED <<required_users, muted_until, vpc, vargs, votes, penalties,
                   lastVote, haroldVars, scanVars, rankVars>>

\* time passes: by a second, or by a whole voting window
Tick ==
    /\ \E d \in {1, WindowSeconds} :
         /\ (now + d) % WindowSeconds <= MaxSeconds
         /\ (now + d) \div WindowSeconds <= MaxWindows
         /\ now' = now + d
    /\ UNCHANGED <<votemute_users, required_users, muted_until, vpc, vargs, votes, penalties,
                   lastVote, haroldVars, scanVars, rankVars>>

VoteNext ==
    \/ \E p \in Voters : VoteValidate(p)
    \/ \E p \in Voters : VoteLocked(p)
    \/ Tick

VoteSpec == VoteInit /\ [][VoteNext]_vars

\* ------------------------------------------------- properties of the job lock
\* invocation i has set harold_message and has not returned yet
Running(i) == pc[i] \in {"spawn", "join", "report", "release"}

\* invocation i has returned after it had set harold_message
TerminatedJob(i) ==
    pc[i] = "done" /\ outcome[i] \in {"join_failed", "panicked", "report_failed", "ok"}

\* invocation i has spawned its channel tasks and has not returned yet
HasWorkers(i) == pc[i] \in {"join", "report", "release"}

\* C1: at most one aggregation job is Running at any time: two invocations
\* never both pass the "already being calculated" check and have their channel
\* workers spawned at the same time.
C1_AtMostOneJobRunning == Cardinality({i \in Invocations : HasWorkers(i)}) <= 1

\* C2: a job that acquired the lock clears it on every exit path: no job that
\* has returned leaves harold_message set to its progress message.
C2_LockClearedOnEveryExit ==
    \A i \in Invocations : TerminatedJob(i) => harold_message # progress_message[i]

\* the accumulators after joining the channels of hs whose task did not abort
RECURSIVE MergeRemaining(_, _, _)
MergeRemaining(acc, hs, i) ==
    IF hs = <<>> THEN acc
    ELSE LET c == Head(hs)
             value == Scan(feed[c])
         IN MergeRemaining(
              IF wpc[i][c] = "aborted" THEN acc
              ELSE [global_messages |-> MergePair(acc.global_messages, value.global_messages),
                    user_hash_map |-> MergeMap(acc.user_hash_map, value.user_hash_map)],
              Tail(hs), i)

\* C3: when a channel task fails fatally the job still joins the remaining
\* tasks, merges their results and sends the final report; only the failed
\* task's contribution is missing from the merged statistics.
C3_WorkerFailureIsolated ==
    \A i \in Invocations :
        ( /\ pc[i] = "done"
          /\ outcome[i] \in {"join_failed", "ok"}
          /\ \E c \in Channels : wpc[i][c] = "aborted" )
        => LET rest == MergeRemaining([global_messages |-> <<0, 0>>, user_hash_map |-> EmptyMap],
                                      handles[i], i)
           IN /\ reported[i]
              /\ global_messages[i] = rest.global_messages
              /\ global_user_hash_map[i] = rest.user_hash_map

\* C10: an invocation whose check runs while a job is Running is rejected as
\* AlreadyRunning (it never gets past the check, so it spawns no worker), and
\* an invocation whose check runs after the lock was released passes it.
C10_RejectedWhileRunning ==
    [][ \A i \in Invocations :
          (pc[i] \in {"idle", "done"} /\ pc'[i] \notin {"idle", "done"})
          => IF \E j \in Invocations : Running(j)
             THEN pc'[i] = "done" /\ outcome'[i] = "already"
             ELSE harold_message = None => pc'[i] = "announce" ]_vars

\* C11: an invocation rejected as AlreadyRunning is handed the progress
\* message of the job that is running at that moment: whenever the check of
\* an invocation finds harold_message set, the message it links is the
\* progress message of an invocation that has set the lock and not returned.
C11_RejectionLinksRunningJob ==
    [][ \A i \in Invocations :
          ( /\ starts' = starts + 1
            /\ pc[i] \in {"idle", "done"}
            /\ pc'[i] = "done" /\ outcome'[i] = "already"
            /\ \A j \in Invocations \ {i} :
                  pc'[j] = pc[j] /\ outcome'[j] = outcome[j] /\ seenRef'[j] = seenRef[j] )
          => \E k \in Invocations :
                Running(k) /\ progress_message[k] = seenRef'[i] ]_vars

\* ------------------------------------------- properties of the vote registry
\* task p runs the registry part of its votemute in this step
LockedStep(p) == vpc[p] = "lock" /\ vpc'[p] = "idle"

\* target has a session whose window is still open at time t
OpenSession(target, t) ==
    target \in DOMAIN votemute_users /\ ~(votemute_users[target].expiry < t)

\* C4: starting from no session, the T-th distinct eligible vote within the
\* window resolves the session (entry removed, moderation action invoked);
\* every earlier one leaves the session in the registry and invokes nothing.
C4_ThresholdVoteResolves ==
    [][ \A p \in Voters : LockedStep(p) =>
          LET voter == vargs[p].voter
              target == vargs[p].target
              fresh == target \notin DOMAIN votemute_users
              counted == IF fresh THEN 0 ELSE Len(votemute_users[target].voters)
              distinct == fresh \/ voter \notin Range(votemute_users[target].voters)
          IN ((fresh \/ OpenSession(target, now)) /\ distinct) =>
               /\ counted + 1 = required_users =>
                    /\ target \notin DOMAIN votemute_users'
                    /\ penalties'[target] = penalties[target] + 1
               /\ counted + 1 < required_users =>
                    /\ target \in DOMAIN votemute_users'
                    /\ penalties' = penalties ]_vars

\* no stored session holds threshold or more voters
NoOvershoot ==
    \A t \in DOMAIN votemute_users : Len(votemute_users[t].voters) < required_users

\* C5: no session in the registry ever holds threshold or more voters, and a
\* vote that brings a session's voter count to the threshold invokes the
\* moderation action exactly once; no other step invokes it.
C5_NoOvershootOneAction ==
    [][ /\ NoOvershoot'
        /\ \A p \in Voters : LockedStep(p) =>
             LET voter == vargs[p].voter
                 target == vargs[p].target
                 counted == IF OpenSession(target, now)
                            THEN Len(votemute_users[target].voters) ELSE 0
                 distinct == ~OpenSession(target, now)
                             \/ voter \notin Range(votemute_users[target].voters)
                 reaches == distinct /\ counted + 1 = required_users
             IN penalties' = [penalties EXCEPT ![target] = IF reaches THEN @ + 1 ELSE @]
        /\ (\A p \in Voters : ~LockedStep(p)) => penalties' = penalties ]_vars

\* C7: a vote cast strictly after the session's expiry leaves the target's
\* session with voters exactly <<voter>> and expiry now + 5 minutes.
C7_VoteAfterExpiryResets ==
    [][ \A p \in Voters : LockedStep(p) =>
          LET voter == vargs[p].voter
              target == vargs[p].target
          IN (target \in DOMAIN votemute_users /\ votemute_users[target].expiry < now) =>
               /\ target \in DOMAIN votemute_users'
               /\ votemute_users'[target] = [expiry |-> now + WindowSeconds,
                                             voters |-> <<voter>>] ]_vars

\* the five eligibility conditions of votemute, in the order they are tested,
\* and the reply each one sends
CheckFails(k, voter, target) ==
    CASE k = 1 -> voter \notin Regulars
      [] k = 2 -> voter = target
      [] k = 3 -> target \in Moderators
      [] k = 4 -> target \in Bots
      [] k = 5 -> IsMuted(muted_until[target], now)

CheckReply == <<ReplyNotRegular, ReplySelf, ReplyModerator, ReplyBot, ReplyMuted>>

\* C6: a vote that fails an eligibility check is rejected with the reply of
\* that check, the five replies are pairwise distinct, the registry, the mutes
\* and the moderation calls are left as they were, and an invocation reaches
\* the registry only if all five checks passed.
C6_RejectionTouchesNothing ==
    [][ votes' = votes + 1 =>
          /\ UNCHANGED <<votemute_users, muted_until, penalties>>
          /\ \A a, b \in 1..5 : CheckReply[a] = CheckReply[b] => a = b
          /\ \A p \in Voters : (vpc[p] = "idle" /\ vpc'[p] = "lock") =>
               \A k \in 1..5 : ~CheckFails(k, vargs'[p].voter, vargs'[p].target)
          /\ (vpc' = vpc /\ lastVote'.reply # ReplyErr) =>
               \E k \in 1..5 :
                 /\ CheckFails(k, lastVote'.voter, lastVote'.target)
                 /\ \A j \in 1..(k - 1) : ~CheckFails(j, lastVote'.voter, lastVote'.target)
                 /\ lastVote'.reply = CheckReply[k] ]_vars

\* a vote on an already muted member was rejected while a session is open
C6_Witness == lastVote.reply = ReplyMuted /\ DOMAIN votemute_users # {}

\* C8: no session's voter list ever contains the same user id twice.
C8_NoDuplicateVoters ==
    \A t \in DOMAIN votemute_users :
        \A a, b \in 1..Len(votemute_users[t].voters) :
            votemute_users[t].voters[a] = votemute_users[t].voters[b] => a = b

\* a repeated vote was turned away from a session that holds two voters
C8_Witness ==
    /\ lastVote.reply = ReplyDuplicate
    /\ lastVote.target \in DOMAIN votemute_users
    /\ Len(votemute_users[lastVote.target].voters) >= 2

\* C9: a vote by a voter already listed in the target's unexpired session is
\* rejected as a duplicate: the registry (voters, expiry, presence) is
\* unchanged and no moderation action is invoked.
C9_DuplicateRejected ==
    [][ \A p \in Voters : LockedStep(p) =>
          LET voter == vargs[p].voter
              target == vargs[p].target
          IN (OpenSession(target, now) /\ voter \in Range(votemute_users[target].voters)) =>
               /\ UNCHANGED <<votemute_users, muted_until, penalties>>
               /\ lastVote'.reply = ReplyDuplicate
               /\ lastVote'.count = Len(votemute_users[target].voters) ]_vars

\* a repeated vote was turned away at the very second the window expires
C9_Witness ==
    /\ lastVote.reply = ReplyDuplicate
    /\ lastVote.target \in DOMAIN votemute_users
    /\ votemute_users[lastVote.target].expiry = now

\* the voters a vote at time t finds counted for target: none without an
\* entry, none after the reset of an expired entry
CountedVoters(target, t) ==
    IF target \in DOMAIN votemute_users
    THEN IF votemute_users[target].expiry < t THEN <<>> ELSE votemute_users[target].voters
    ELSE <<>>

\* C21: registry mutations are mutually exclusive: each vote reads and
\* updates the registry in one step, so no vote is lost: after the step the
\* voter is counted together with every voter counted before, or the session
\* is resolved with exactly one moderation call; the other task's pending vote
\* and every other target's session are left as they were.
C21_VotesNotLost ==
    [][ \A p \in Voters : LockedStep(p) =>
          LET voter == vargs[p].voter
              target == vargs[p].target
              had == CountedVoters(target, now)
          IN /\ IF target \in DOMAIN votemute_users'
                THEN /\ voter \in Range(votemute_users'[target].voters)
                     /\ Len(votemute_users'[target].voters) >= Len(had)
                     /\ \A k \in 1..Len(had) : votemute_users'[target].voters[k] = had[k]
                     /\ penalties' = penalties
                ELSE penalties' = [penalties EXCEPT ![target] = @ + 1]
             /\ \A q \in Voters \ {p} : vpc'[q] = vpc[q] /\ vargs'[q] = vargs[q]
             /\ \A t \in DOMAIN votemute_users \ {target} :
                   t \in DOMAIN votemute_users' /\ votemute_users'[t] = votemute_users[t] ]_vars

\* two invocations by different voters for the same target have both been
\* through the registry within the same second, and both voters are counted
C21_Witness ==
    /\ votes = 2
    /\ now = 0
    /\ \A p \in Voters : vpc[p] = "idle"
    /\ lastVote.reply = ReplyProgress
    /\ lastVote.count = 2
    /\ lastVote.target \in DOMAIN votemute_users
    /\ Len(votemute_users[lastVote.target].voters) = 2
    /\ votemute_users[lastVote.target].voters[1] # votemute_users[lastVote.target].voters[2]

\* C22: a vote by an eligible voter for a target without a registry entry
\* creates an entry whose voter list is exactly <<voter>> and whose expiry is
\* now + 5 minutes, and reports progress 1 of the threshold; nothing else
\* changes.
C22_FirstVoteCreatesSession ==
    [][ \A p \in Voters : LockedStep(p) =>
          LET voter == vargs[p].voter
              target == vargs[p].target
          IN target \notin DOMAIN votemute_users =>
               /\ DOMAIN votemute_users' = DOMAIN votemute_users \cup {target}
               /\ votemute_users'[target].voters = <<voter>>
               /\ votemute_users'[target].expiry = now + 5 * 60
               /\ \A t \in DOMAIN votemute_users : votemute_users'[t] = votemute_users[t]
               /\ lastVote' = [voter |-> voter, target |-> target,
                               reply |-> ReplyProgress, count |-> 1]
               /\ UNCHANGED <<muted_until, penalties, required_users>> ]_vars

\* a first vote has created a session while the threshold is above one
C22_Witness ==
    /\ lastVote.reply = ReplyProgress
    /\ lastVote.count = 1
    /\ required_users > 1
    /\ lastVote.target \in DOMAIN votemute_users
    /\ votemute_users[lastVote.target] = [expiry |-> now + WindowSeconds,
                                          voters |-> <<lastVote.voter>>]
    /\ now > 0

C28_ExpiryIsLazy ==
    [][ /\ now' # now => votemute_users' = votemute_users
        /\ \A t \in DOMAIN votemute_users :
             (t \notin DOMAIN votemute_users' \/ votemute_users'[t] # votemute_users[t])
             => \E p \in Voters :
                  /\ LockedStep(p)
                  /\ vargs[p].target = t
                  /\ t \notin DOMAIN votemute_users' =>
                       /\ Len(CountedVoters(t, now)) + 1 = required_users
                       /\ penalties'[t] = penalties[t] + 1
                  /\ (t \in DOMAIN votemute_users' /\ votemute_users[t].expiry < now) =>
                       votemute_users'[t].expiry = now + WindowSeconds ]_vars

\* a session whose window has closed is still in the registry with its voter
C28_Witness ==
    \E t \in DOMAIN votemute_users :
        /\ votemute_users[t].expiry < now
        /\ Len(votemute_users[t].voters) >= 1
        /\ \A p \in Voters : vpc[p] = "idle"

\* C30: under concurrent votes no vote creates or appends to a session for a
\* target that is under an active penalty at the moment of the registry
\* mutation, and the moderation action is never invoked on a target that is
\* under an active penalty: the "already muted" check made before the lock is
\* still valid when the registry is changed.
C30_MutedCheckStillValid ==
    [][ \A p \in Voters : LockedStep(p) =>
          LET target == vargs[p].target
          IN (votemute_users' # votemute_users \/ penalties' # penalties)
             => ~IsMuted(muted_until[target], now) ]_vars

\* C31: on resolution the session is removed from the registry before the
\* moderation action is invoked: when the action fails the vote returns the
\* error, the session stays removed (the counted votes are not put back) and
\* the target is not muted; every other session is left as it was.
C31_FailedActionLeavesSessionRemoved ==
    [][ \A p \in Voters :
          (LockedStep(p) /\ lastVote'.reply = ReplyErr) =>
             LET voter == vargs[p].voter
                 target == vargs[p].target
             IN /\ Len(CountedVoters(target, now)) + 1 = required_users
                /\ voter \notin Range(CountedVoters(target, now))
                /\ target \in DOMAIN votemute_users
                /\ votemute_users' = [t \in DOMAIN votemute_users \ {target} |-> votemute_users[t]]
                /\ muted_until' = muted_until
                /\ penalties' = [penalties EXCEPT ![target] = @ + 1]
                /\ lastVote'.voter = voter /\ lastVote'.target = target ]_vars

\* the second of two required votes has called the moderation action, the
\* call failed, and the target has neither a session nor a mute
C31_Witness ==
    /\ lastVote.reply = ReplyErr
    /\ lastVote.count = 2
    /\ required_users = 2
    /\ lastVote.target \in Targets
    /\ lastVote.target \notin DOMAIN votemute_users
    /\ muted_until[lastVote.target] = NeverMuted
    /\ penalties[lastVote.target] = 1

\* ------------------------------------------------ one harold job on its own
\* the invocation that is followed
Job == 1

\* the histories of Feeds and two more: marked messages of two authors, and
\* a third author before a failed item
JobFeeds == Feeds \cup { <<OkMsg(2, TRUE), OkMsg(1, TRUE)>>, <<OkMsg(3, FALSE), ErrItem>> }

\* every channel has any of the histories
JobInit ==
    /\ VoteIdle(MaxThreshold)
    /\ feed \in [Channels -> JobFeeds]
    /\ channels \in ChannelOrders
    /\ HaroldIdle
    /\ ScanIdle
    /\ RankIdle

\* the command is invoked once
JobStart == starts = 0 /\ HaroldCheck(Job)

JobNext ==
    \/ JobStart
    \/ HaroldAnnounce(Job)
    \/ HaroldSetLock(Job)
    \/ HaroldSpawn(Job)
    \/ \E c \in Channels : WorkerCount(Job, c)
    \/ \E c \in Channels : WorkerRender(Job, c)
    \/ \E c \in Channels : WorkerAbort(Job, c)
    \/ HaroldJoin(Job)
    \/ HaroldReport(Job)
    \/ HaroldRelease(Job)

JobSpec == JobInit /\ [][JobNext]_vars

\* the join loop has joined every handle of the job
AllJoined(i) == handles[i] # <<>> /\ joined[i] = Len(handles[i])

\* the accumulators of invocation i as one value
Merged(i) == [global_messages |-> global_messages[i],
              user_hash_map |-> global_user_hash_map[i]]

NoStats == [global_messages |-> <<0, 0>>, user_hash_map |-> EmptyMap]

\* C12: the merge is order-independent: once every handle is joined the
\* accumulators equal the merge of the same channel results taken in any
\* other order.
C12_MergeOrderIndependent ==
    AllJoined(Job) =>
        \A s \in ChannelOrders :
            Merged(Job) = MergeAll(NoStats, [k \in 1..NumChannels |-> Scan(feed[s[k]])])

\* every handle is joined, the channels were joined in descending order and
\* an author has messages in the first and in the last joined channel
C12_Witness ==
    /\ AllJoined(Job)
    /\ handles[Job][1] = NumChannels
    /\ \E u \in Users : u \in DOMAIN Scan(feed[1]).user_hash_map
                        /\ u \in DOMAIN Scan(feed[NumChannels]).user_hash_map

\* what channel c holds of user u: component k of the user's counts
CountIn(c, u, k) ==
    LET m == Scan(feed[c]).user_hash_map
    IN IF u \in DOMAIN m THEN m[u][k] ELSE 0

RECURSIVE SumUser(_, _, _)
SumUser(S, u, k) ==
    IF S = {} THEN 0
    ELSE LET c == CHOOSE d \in S : TRUE
         IN CountIn(c, u, k) + SumUser(S \ {c}, u, k)

RECURSIVE SumGlobal(_, _)
SumGlobal(S, k) ==
    IF S = {} THEN 0
    ELSE LET c == CHOOSE d \in S : TRUE
         IN Scan(feed[c]).global_messages[k] + SumGlobal(S \ {c}, k)

\* the channels whose handle the join loop has joined
JoinedChannels(i) == { handles[i][k] : k \in 1..joined[i] }

\* C13: the merge conserves the counts: the merged global counts are the
\* sums of the joined channels' global counts, and every user's merged counts
\* are the sums of that user's counts over the joined channels.
C13_MergeConserves ==
    LET S == JoinedChannels(Job) IN
    /\ global_messages[Job] = <<SumGlobal(S, 1), SumGlobal(S, 2)>>
    /\ \A u \in Users :
          IF u \in DOMAIN global_user_hash_map[Job]
          THEN global_user_hash_map[Job][u] = <<SumUser(S, u, 1), SumUser(S, u, 2)>>
          ELSE \A c \in S : u \notin DOMAIN Scan(feed[c]).user_hash_map

\* every handle is joined and a user with marked messages was counted in two
\* channels
C13_Witness ==
    /\ AllJoined(Job)
    /\ global_messages[Job][2] >= 2
    /\ \E u \in Users : \E c, d \in Channels :
          c # d /\ CountIn(c, u, 1) >= 1 /\ CountIn(d, u, 1) >= 1

\* the channel tasks of invocation i that are in one of the given states
TasksIn(i, states) == { c \in Channels : wpc[i][c] \in states }

\* C17: every channel task adds one to the shared progress counter exactly
\* once, after its scan: the counter is between 0 and the number of spawned
\* tasks, it counts every task that is past its scan and none that is not, it
\* changes only by the +1 of a task leaving its scan, and it equals the number
\* of tasks once all of them have returned.
C17_ProgressCounted ==
    /\ [](/\ 0 <= channel_progress[Job]
          /\ channel_progress[Job] <= Len(handles[Job])
          /\ Cardinality(TasksIn(Job, {"render", "done"})) <= channel_progress[Job]
          /\ channel_progress[Job] <= Cardinality(TasksIn(Job, {"render", "done", "aborted"}))
          /\ (handles[Job] # <<>> /\ TasksIn(Job, {"done"}) = Channels)
                => channel_progress[Job] = Len(handles[Job]))
    /\ [][ /\ \A c \in Channels :
                (wpc[Job][c] = "scan" /\ wpc'[Job][c] = "render")
                => channel_progress'[Job] = channel_progress[Job] + 1
           /\ (pc[Job] = "join" /\ channel_progress'[Job] # channel_progress[Job])
                => \E c \in Channels : wpc[Job][c] = "scan" /\ wpc'[Job][c] = "render" ]_vars

\* every task has returned and all of them are counted while the join loop
\* has not joined the last one yet
C17_Witness ==
    /\ handles[Job] # <<>>
    /\ TasksIn(Job, {"done"}) = Channels
    /\ channel_progress[Job] = NumChannels
    /\ pc[Job] = "join"

\* channel task c of invocation i makes its edit of the progress message and
\* returns in this step
RenderStep(i, c) == wpc[i][c] = "render" /\ wpc'[i][c] = "done"

\* C32: the progress message is edited while the channel_progress guard is
\* held: the task that edits holds the guard, no other task is between its
\* += 1 and its edit, and the value it writes is the counter's; so whatever
\* the interleaving of the tasks, every edit that succeeds shows
\* "completed/total" with a completed value strictly larger than the one
\* shown before, between 1 and total, and equal to the number of tasks that
\* returned before plus one when no task was aborted.
C32_RendersIncrease ==
    /\ [](/\ rendered[Job][1] <= channel_progress[Job]
          /\ \A c \in Channels :
               wpc[Job][c] = "render"
               => /\ cpLock[Job] = c
                  /\ rendered[Job][1] < channel_progress[Job])
    /\ [][ /\ \A c \in Channels :
                RenderStep(Job, c)
                => /\ cpLock[Job] = c
                   /\ cpLock'[Job] = NoLock
                   /\ \/ rendered'[Job] = rendered[Job]
                      \/ rendered'[Job] = <<channel_progress[Job], Len(handles[Job])>>
           /\ rendered'[Job] # rendered[Job]
                => /\ \E c \in Channels : RenderStep(Job, c)
                   /\ rendered'[Job][1] > rendered[Job][1]
                   /\ rendered'[Job][1] \in 1..Len(handles[Job])
                   /\ rendered'[Job][2] = Len(handles[Job])
                   /\ TasksIn(Job, {"aborted"}) = {}
                        => rendered'[Job][1] = Cardinality(TasksIn(Job, {"done"})) + 1 ]_vars

\* one task has returned with "1/total" shown, and a second task, counted as
\* 2, holds the guard and is about to edit the message
C32_Witness ==
    /\ rendered[Job] = <<1, NumChannels>>
    /\ Cardinality(TasksIn(Job, {"done"})) = 1
    /\ channel_progress[Job] = 2
    /\ \E c \in Channels : wpc[Job][c] = "render" /\ cpLock[Job] = c

\* channel task c of invocation i returns in this step with its edit of the
\* progress message failed: what was rendered last stays
RenderFailed(i, c) ==
    wpc[i][c] = "render" /\ wpc'[i][c] = "done" /\ rendered'[i] = rendered[i]

\* C18: a failed edit of the progress message is not propagated: the task's
\* count stays in the counter, the task returns its result and the job goes
\* on, and the merged statistics of a job that joined every handle are those
\* of its channels, whatever was rendered.
C18_RenderFailureContained ==
    /\ [][ \A c \in Channels :
             RenderFailed(Job, c)
             => /\ channel_progress'[Job] = channel_progress[Job]
                /\ pc'[Job] = pc[Job]
                /\ outcome'[Job] = outcome[Job] ]_vars
    /\ [](AllJoined(Job) =>
             Merged(Job) = MergeAll(NoStats, [k \in 1..Len(handles[Job]) |->
                                                 Scan(feed[handles[Job][k]])]))

\* the job sent its report with every task counted although no edit of the
\* progress message ever succeeded
C18_Witness ==
    /\ reported[Job]
    /\ rendered[Job] = <<0, 0>>
    /\ channel_progress[Job] = NumChannels
    /\ global_messages[Job][1] >= 1

FairJobSpec ==
    /\ JobInit
    /\ [][JobNext]_vars
    /\ WF_vars(HaroldAnnounce(Job))
    /\ WF_vars(HaroldSetLock(Job))
    /\ WF_vars(HaroldSpawn(Job))
    /\ \A c \in Channels : WF_vars(WorkerCount(Job, c))
    /\ \A c \in Channels : WF_vars(WorkerRender(Job, c))
    /\ WF_vars(HaroldJoin(Job))
    /\ WF_vars(HaroldReport(Job))
    /\ WF_vars(HaroldRelease(Job))

\* C20: under fair scheduling every job that has set the lock eventually
\* returns and has put the lock back to idle: no interleaving of the channel
\* tasks on the progress counter, the progress message and the lock blocks it.
C20_JobEndsWithLockIdle ==
    (pc[Job] = "spawn") ~> (pc[Job] = "done" /\ harold_message = None)

\* C14: a leaderboard asked for with fewer than ten ranked users does not
\* fail: the job degrades and still completes with a report, so a job that has
\* joined every handle and whose report could be sent has sent it and returned
\* normally.
C14_ShortLeaderboardReports ==
    ( /\ AllJoined(Job)
      /\ leaderboard[Job]
      /\ Cardinality(DOMAIN global_user_hash_map[Job]) < TopN
      /\ pc[Job] = "done"
      /\ outcome[Job] # "report_failed" )
    => reported[Job] /\ outcome[Job] = "ok"

\* ------------------------------------------------- one channel task's scan
\* what messages_iter can yield: messages of two authors, with and without
\* the marker, and failed items
ScanItems == { OkMsg(u, h) : u \in {1, 2}, h \in BOOLEAN } \cup { ErrItem }
Histories == UNION { [1..n -> ScanItems] : n \in 0..MaxFeedLen }

ScanInit ==
    /\ VoteIdle(MaxThreshold)
    /\ feed = [c \in Channels |-> <<>>]
    /\ channels = [k \in 1..NumChannels |-> k]
    /\ HaroldIdle
    /\ RankIdle
    /\ messages \in Histories
    /\ scanned = <<>>
    /\ task = [global_messages |-> <<0, 0>>, user_hash_map |-> EmptyMap]

\* messages.next().await yields Some(Ok(message)): count it
ScanOk ==
    /\ messages # <<>>
    /\ Head(messages).ok
    /\ task' = ScanStep(task, Head(messages))
    /\ scanned' = Append(scanned, Head(messages))
    /\ messages' = Tail(messages)
    /\ UNCHANGED <<haroldVars, voteVars, rankVars>>

\* messages.next().await yields Some(Err(why)): log it, go on
ScanErr ==
    /\ messages # <<>>
    /\ ~Head(messages).ok
    /\ task' = ScanStep(task, Head(messages))
    /\ scanned' = Append(scanned, Head(messages))
    /\ messages' = Tail(messages)
    /\ UNCHANGED <<haroldVars, voteVars, rankVars>>

ScanNext == ScanOk \/ ScanErr

ScanSpec == ScanInit /\ [][ScanNext]_vars

\* the successfully read records of a history, in order
RECURSIVE OkOnly(_)
OkOnly(items) ==
    IF items = <<>> THEN <<>>
    ELSE IF Head(items).ok THEN <<Head(items)>> \o OkOnly(Tail(items))
    ELSE OkOnly(Tail(items))

\* C16: a scan over a history with failed items runs to its end: a failed
\* item changes no counter and does not stop the scan, and what the task has
\* counted always equals the scan of the successfully read records alone.
C16_FailedItemsSkipped ==
    [][ /\ (messages # <<>> /\ ~Head(messages).ok) =>
             (task' = task /\ messages' = Tail(messages))
        /\ task' = Scan(OkOnly(scanned')) ]_vars

\* the scan reached the end of a history in which a failed item came before
\* a successfully read one
C16_Witness ==
    /\ messages = <<>>
    /\ \E k \in 1..(Len(scanned) - 1) : ~scanned[k].ok /\ scanned[k + 1].ok
    /\ task.global_messages[1] >= 1

\* the positions of the items read so far that are successfully read records
\* of author u, and those of them that hold the marker
ReadOf(u) == { k \in 1..Len(scanned) : scanned[k].ok /\ scanned[k].author = u }
MarkedOf(u) == { k \in ReadOf(u) : Marker \in Range(scanned[k].content) }

\* C24: the result of a scan gives every author a total equal to the number
\* of successfully read records of that author and a flagged count equal to
\* the number of those that contain the marker; the channel's own pair counts
\* the successfully read records and those of them that contain the marker.
C24_ScanCounts ==
    LET authors == { scanned[k].author : k \in { j \in 1..Len(scanned) : scanned[j].ok } } IN
    /\ DOMAIN task.user_hash_map = authors
    /\ \A u \in authors :
          task.user_hash_map[u] = <<Cardinality(ReadOf(u)), Cardinality(MarkedOf(u))>>
    /\ task.global_messages[1] = Cardinality({ k \in 1..Len(scanned) : scanned[k].ok })
    /\ task.global_messages[2] =
          Cardinality({ k \in 1..Len(scanned) : scanned[k].ok /\ Marker \in Range(scanned[k].content) })

\* a scan has ended on a history with two authors, a marked and an unmarked
\* record of the same author among them
C24_Witness ==
    /\ messages = <<>>
    /\ Cardinality(DOMAIN task.user_hash_map) = 2
    /\ \E u \in DOMAIN task.user_hash_map :
          task.user_hash_map[u][1] = 2 /\ task.user_hash_map[u][2] = 1

\* flagged <= total in the pair of counts and in every user's entry
CountsBounded(stats) ==
    /\ stats.global_messages[2] <= stats.global_messages[1]
    /\ \A u \in DOMAIN stats.user_hash_map :
          stats.user_hash_map[u][2] <= stats.user_hash_map[u][1]

\* C25: flagged <= total holds for every user entry and for the global pair
\* at every step of every channel task's scan (after each item of the
\* channel's history) and at every step of the merge into the job's
\* accumulators.
C25_FlaggedAtMostTotal ==
    /\ \A c \in Channels : \A n \in 0..Len(feed[c]) :
          CountsBounded(Scan(SubSeq(feed[c], 1, n)))
    /\ CountsBounded(Merged(Job))

\* the join loop has merged two channels with marked messages between them
C25_Witness ==
    /\ joined[Job] >= 2
    /\ global_messages[Job][2] >= 2
    /\ global_messages[Job][1] > global_messages[Job][2]
    /\ \E u \in DOMAIN global_user_hash_map[Job] : global_user_hash_map[Job][u][2] >= 2

\* a channel task of invocation i takes a step
TaskStep(i) == pc'[i] = pc[i] /\ pc[i] \in {"join", "done"} /\ wpc'[i] # wpc[i]

\* C29: a channel task writes only its own result, the shared progress
\* counter and the progress message; the job's accumulators are written by the
\* joining task alone, one joined handle at a time, and by no channel task.
C29_OnlyJoinerWritesStats ==
    [][ /\ TaskStep(Job) =>
             /\ UNCHANGED <<global_messages, global_user_hash_map, joined, handles>>
             /\ UNCHANGED <<harold_message, progress_message, outcome, reported, feed, channels>>
        /\ (Merged(Job)' # Merged(Job)) =>
             \/ /\ pc[Job] = "join"
                /\ joined'[Job] = joined[Job] + 1
                /\ wpc' = wpc /\ channel_progress' = channel_progress
             \/ pc[Job] \in {"idle", "done"} /\ pc'[Job] \notin {"idle", "done"} ]_vars

\* a task returns while the join loop has already merged an earlier handle
C29_Witness ==
    /\ pc[Job] = "join"
    /\ joined[Job] >= 1
    /\ global_messages[Job][1] >= 1
    /\ TasksIn(Job, {"render"}) # {}

\* ------------------------------------------------- the ranking part of harold
\* (user_messages.1 as f32 / user_messages.0 as f32) * 100.0, kept as the
\* fraction <<numerator, denominator>>; 0.0 / 0.0 is the NaN <<0, 0>>
Percentage(user_messages) == <<user_messages[2] * 100, user_messages[1]>>

IsNaN(x) == x[1] = 0 /\ x[2] = 0

\* partial_cmp on u64: always Some
PartialCmpU64(x, y) ==
    IF x < y THEN "Less" ELSE IF x > y THEN "Greater" ELSE "Equal"

\* partial_cmp on f32: None when either side is NaN
PartialCmpF32(x, y) ==
    IF IsNaN(x) \/ IsNaN(y) THEN "None"
    ELSE IF x[1] * y[2] < y[1] * x[2] THEN "Less"
    ELSE IF x[1] * y[2] > y[1] * x[2] THEN "Greater"
    ELSE "Equal"

\* .unwrap_or(std::cmp::Ordering::Equal)
UnwrapOrEqual(ordering) == IF ordering = "None" THEN "Equal" ELSE ordering

\* CompareBy with unwrap_or(Less): rows that do not differ count as Less
CompareByTiesLess(metric, a, b) ==
    LET ordering ==
          CASE metric = "harold" -> PartialCmpU64(b[2][2], a[2][2])
            [] metric = "messages" -> PartialCmpU64(b[2][1], a[2][1])
            [] metric = "percentage" -> PartialCmpF32(b[3], a[3])
    IN IF ordering \in {"None", "Equal"} THEN "Less" ELSE ordering

\* the three closures handed to sort_by, on rows (user, (messages, harold
\* messages), percentage)
CompareBy(metric, a, b) ==
    CASE metric = "harold" -> UnwrapOrEqual(PartialCmpU64(b[2][2], a[2][2]))
      [] metric = "messages" -> UnwrapOrEqual(PartialCmpU64(b[2][1], a[2][1]))
      [] metric = "percentage" -> UnwrapOrEqual(PartialCmpF32(b[3], a[3]))

\* sort_by is stable: a row moves in front of the rows it is Less than only
RECURSIVE InsertBy(_, _, _)
InsertBy(sorted, row, metric) ==
    IF sorted = <<>> THEN <<row>>
    ELSE IF CompareBy(metric, row, sorted[Len(sorted)]) = "Less"
         THEN Append(InsertBy(SubSeq(sorted, 1, Len(sorted) - 1), row, metric),
                     sorted[Len(sorted)])
         ELSE Append(sorted, row)

RECURSIVE SortFrom(_, _, _)
SortFrom(sorted, rows, metric) ==
    IF rows = <<>> THEN sorted
    ELSE SortFrom(InsertBy(sorted, Head(rows), metric), Tail(rows), metric)

SortBy(rows, metric) == SortFrom(<<>>, rows, metric)

\* the orders in which a HashMap with these keys can be iterated
IterOrders(keys) ==
    { s \in [1..Cardinality(keys) -> keys] :
        \A a, b \in 1..Cardinality(keys) : s[a] = s[b] => a = b }

\* the job has joined every channel task and is about to build its report
RankInit ==
    /\ VoteIdle(MaxThreshold)
    /\ ScanIdle
    /\ RankIdle
    /\ feed \in [Channels -> JobFeeds]
    /\ channels = [k \in 1..NumChannels |-> k]
    /\ harold_message = 1
    /\ nextMsg = 2
    /\ starts = 1
    /\ pc = [i \in Invocations |-> IF i = Job THEN "report" ELSE "idle"]
    /\ leaderboard = [i \in Invocations |-> FALSE]
    /\ progress_message = [i \in Invocations |-> IF i = Job THEN 1 ELSE None]
    /\ seenRef = [i \in Invocations |-> None]
    /\ handles = [i \in Invocations |-> IF i = Job THEN channels ELSE <<>>]
    /\ joined = [i \in Invocations |-> IF i = Job THEN NumChannels ELSE 0]
    /\ wpc = [i \in Invocations |-> [c \in Channels |-> IF i = Job THEN "done" ELSE "none"]]
    /\ channel_progress = [i \in Invocations |-> IF i = Job THEN NumChannels ELSE 0]
    /\ cpLock = [i \in Invocations |-> NoLock]
    /\ rendered = [i \in Invocations |-> IF i = Job THEN <<NumChannels, NumChannels>> ELSE <<0, 0>>]
    /\ LET all == MergeAll(NoStats, [k \in 1..NumChannels |-> Scan(feed[k])]) IN
         /\ global_messages = [i \in Invocations |->
                                  IF i = Job THEN all.global_messages ELSE <<0, 0>>]
         /\ global_user_hash_map = [i \in Invocations |->
                                  IF i = Job THEN all.user_hash_map ELSE EmptyMap]
    /\ outcome = [i \in Invocations |-> "none"]
    /\ reported = [i \in Invocations |-> FALSE]

\* "Dump the whole hashmap into a Vec", in the map's iteration order
RankDump ==
    /\ rpc = "idle"
    /\ \E order \in IterOrders(DOMAIN global_user_hash_map[Job]) :
         user_message_vec' =
            [k \in 1..Len(order) |->
                <<order[k], global_user_hash_map[Job][order[k]],
                  Percentage(global_user_hash_map[Job][order[k]])>>]
    /\ rpc' = "sort"
    /\ UNCHANGED <<haroldVars, voteVars, scanVars, harold_message_leaderboard,
                   message_leaderboard, harold_percentage_leaderboard, lookup>>

\* "Create the different leaderboards" and "Sort them"
RankSort ==
    /\ rpc = "sort"
    /\ harold_message_leaderboard' = SortBy(user_message_vec, "harold")
    /\ message_leaderboard' = SortBy(user_message_vec, "messages")
    /\ harold_percentage_leaderboard' = SortBy(user_message_vec, "percentage")
    /\ rpc' = "lookup"
    /\ UNCHANGED <<haroldVars, voteVars, scanVars, user_message_vec, lookup>>

\* for i in 0..board.len() { if board[i].0 == user.id { position = i + 1 } }
RECURSIVE PositionFrom(_, _, _, _)
PositionFrom(board, id, i, position) ==
    IF i >= Len(board) THEN position
    ELSE PositionFrom(board, id, i + 1,
                      IF board[i + 1][1] = id THEN i + 1 ELSE position)

\* LookupUser that reports the index i of the row instead of i + 1
LookupUserZeroBased(id) ==
    LET p1 == PositionFrom(harold_message_leaderboard, id, 0, 0)
        p2 == PositionFrom(message_leaderboard, id, 0, 0)
        p3 == PositionFrom(harold_percentage_leaderboard, id, 0, 0)
        index(position) == IF position = 0 THEN 0 ELSE position - 1
    IN [user |-> id,
        messages |-> <<IF p2 = 0 THEN 0 ELSE message_leaderboard[p2][2][1],
                       IF p1 = 0 THEN 0 ELSE harold_message_leaderboard[p1][2][2]>>,
        harold_percentage |-> IF p3 = 0 THEN <<0, 1>>
                              ELSE harold_percentage_leaderboard[p3][3],
        leaderboard_positions |-> <<index(p1), index(p2), index(p3)>>]

\* the three loops of the user lookup: positions default to 0, the counts to
\* (0, 0) and the percentage to 0.0
LookupUser(id) ==
    LET p1 == PositionFrom(harold_message_leaderboard, id, 0, 0)
        p2 == PositionFrom(message_leaderboard, id, 0, 0)
        p3 == PositionFrom(harold_percentage_leaderboard, id, 0, 0)
    IN [user |-> id,
        messages |-> <<IF p2 = 0 THEN 0 ELSE message_leaderboard[p2][2][1],
                       IF p1 = 0 THEN 0 ELSE harold_message_leaderboard[p1][2][2]>>,
        harold_percentage |-> IF p3 = 0 THEN <<0, 1>>
                              ELSE harold_percentage_leaderboard[p3][3],
        leaderboard_positions |-> <<p1, p2, p3>>]

\* match user { Some(user) => the lookup, None => () }
RankLookup ==
    /\ rpc = "lookup"
    /\ \E user \in Users \cup {None} :
         lookup' = IF user = None THEN NoLookup ELSE LookupUser(user)
    /\ rpc' = "done"
    /\ UNCHANGED <<haroldVars, voteVars, scanVars, user_message_vec,
                   harold_message_leaderboard, message_leaderboard,
                   harold_percentage_leaderboard>>

RankNext == RankDump \/ RankSort \/ RankLookup

RankSpec == RankInit /\ [][RankNext]_vars

\* the three views with their metrics
Views == <<harold_message_leaderboard, message_leaderboard, harold_percentage_leaderboard>>

\* row a is at least row b in the metric of view v: harold messages, messages,
\* or harold messages per message
AtLeast(v, a, b) ==
    CASE v = 1 -> a[2][2] >= b[2][2]
      [] v = 2 -> a[2][1] >= b[2][1]
      [] v = 3 -> a[2][2] * b[2][1] >= b[2][2] * a[2][1]

\* where the row of user id stands in rows
IndexIn(rows, id) == CHOOSE k \in 1..Len(rows) : rows[k][1] = id

\* C26: each of the three leaderboards is a permutation of the entries of
\* the merged statistics (every user exactly once, with the user's counts),
\* ordered non-increasingly by its metric, rows that compare equal keep the
\* order they had in the dump, and the merged statistics are what they were
\* before the leaderboards were built.
C26_LeaderboardsSorted ==
    rpc \in {"lookup", "done"} =>
        LET stats == global_user_hash_map[Job] IN
        /\ stats = MergeAll(NoStats, [k \in 1..NumChannels |-> Scan(feed[k])]).user_hash_map
        /\ \A v \in 1..3 :
             /\ Len(Views[v]) = Cardinality(DOMAIN stats)
             /\ \A u \in DOMAIN stats :
                  /\ Cardinality({ k \in 1..Len(Views[v]) : Views[v][k][1] = u }) = 1
                  /\ Views[v][IndexIn(Views[v], u)] = user_message_vec[IndexIn(user_message_vec, u)]
                  /\ Views[v][IndexIn(Views[v], u)][2] = stats[u]
             /\ \A a, b \in 1..Len(Views[v]) :
                  a < b =>
                    /\ AtLeast(v, Views[v][a], Views[v][b])
                    /\ AtLeast(v, Views[v][b], Views[v][a]) =>
                         IndexIn(user_message_vec, Views[v][a][1])
                            < IndexIn(user_message_vec, Views[v][b][1])

\* three users are ranked, two of them equal in harold messages, and the dump
\* was not in the order of the harold message leaderboard
C26_Witness ==
    /\ rpc = "done"
    /\ Len(user_message_vec) = 3
    /\ \E a, b \in 1..3 : a # b /\ user_message_vec[a][2][2] = user_message_vec[b][2][2]
    /\ harold_message_leaderboard # user_message_vec
    /\ harold_percentage_leaderboard # user_message_vec

\* C27: the lookup of a user who is in the merged statistics gives, for each
\* of the three leaderboards, the 1-based position of the user's row in it
\* (between 1 and the number of users) and the user's own counts; the lookup
\* of a user who is not in the statistics gives position 0 and zero counts in
\* all three and does not fail.
C27_LookupPositions ==
    (rpc = "done" /\ lookup.user # None) =>
        LET stats == global_user_hash_map[Job]
            u == lookup.user
        IN IF u \in DOMAIN stats
           THEN /\ \A v \in 1..3 :
                     /\ lookup.leaderboard_positions[v] \in 1..Cardinality(DOMAIN stats)
                     /\ Views[v][lookup.leaderboard_positions[v]][1] = u
                /\ lookup.messages = stats[u]
                /\ lookup.harold_percentage[2] # 0
                /\ lookup.harold_percentage[1] * stats[u][1]
                      = stats[u][2] * 100 * lookup.harold_percentage[2]
           ELSE /\ lookup.leaderboard_positions = <<0, 0, 0>>
                /\ lookup.messages = <<0, 0>>
                /\ lookup.harold_percentage[1] = 0 /\ lookup.harold_percentage[2] # 0

\* a ranked user was looked up who stands first on one leaderboard and last
\* of three on another
C27_Witness ==
    /\ rpc = "done"
    /\ lookup.user \in DOMAIN global_user_hash_map[Job]
    /\ \E v, w \in 1..3 : lookup.leaderboard_positions[v] = 1
                          /\ lookup.leaderboard_positions[w] = 3

\* every entry of the statistics has a total of at least 1, and so has the
\* denominator of the percentage the dump computes from it
TotalsPositive(stats) ==
    \A u \in DOMAIN stats.user_hash_map :
       /\ stats.user_hash_map[u][1] >= 1
       /\ Percentage(stats.user_hash_map[u])[2] >= 1

\* C33: every user with an entry in a channel task's map (after each item of
\* the channel's history) or in the job's merged map has a total count of at
\* least 1: an entry is created only together with the count of a message of
\* that user, and the merge adds a task's entry as it is; so the per-user
\* percentage of the leaderboards never divides by zero.
C33_EntriesHaveMessages ==
    /\ \A c \in Channels : \A n \in 0..Len(feed[c]) :
          TotalsPositive(Scan(SubSeq(feed[c], 1, n)))
    /\ TotalsPositive(Merged(Job))

\* every handle is joined, one channel's history had an item that could not be
\* read, and the merged map has a user with a single unmarked message and
\* another user with messages in two channels
C33_Witness ==
    /\ AllJoined(Job)
    /\ \E c \in Channels : \E k \in 1..Len(feed[c]) : ~feed[c][k].ok
    /\ \E u \in DOMAIN global_user_hash_map[Job] : global_user_hash_map[Job][u] = <<1, 0>>
    /\ \E u \in DOMAIN global_user_hash_map[Job] : \E c, d \in Channels :
          c # d /\ CountIn(c, u, 1) >= 1 /\ CountIn(d, u, 1) >= 1

====
